---- MODULE Spec2Model ----
(***************************************************************************)
(* python-manilaclient: API-version-gated request dispatch, the            *)
(* experimental-flag wrapper and the share / share-group managers that     *)
(* are declared through them.                                              *)
(*                                                                         *)
(* One client (one transport, one session API version) is modelled, with   *)
(* calling threads that each run one call at a time.  A call is: resolve   *)
(* the version window (api_versions.wraps), run the experimental wrapper   *)
(* (api_versions.experimental_api), run the selected implementation, which *)
(* issues its request on the shared transport, and hand the result back.   *)
(* The text helpers osc.utils.extract_properties and                       *)
(* Share._validate_ip_range are modelled as functions on character         *)
(* sequences, applied in runs of their own (SpecUtil).                     *)
(***************************************************************************)
EXTENDS Integers, Sequences, FiniteSets, TLC

(* ------------------------------ bounds -------------------------------- *)

\* Caller versions range over Major.Minor with Major in 0..MaxMajor and
\* Minor in 0..MaxMinor (2.56 and 2.57 are the last declared edges).
MaxMajor == 2
MaxMinor == 57
\* Requests one call may issue before the model stops counting.
MaxReq == 2

(* ----------------------------- versions ------------------------------- *)

\* APIVersion "X.Y" as the pair <<X, Y>>.
APIVersion(major, minor) == <<major, minor>>

\* An absent end_version: "valid from this version onward".
NoEnd == << >>

Versions == { APIVersion(ma, mi) : ma \in 0..MaxMajor, mi \in 0..MaxMinor }

\* a <= b on (major, minor), major first.
VerLE(a, b) == a[1] < b[1] \/ (a[1] = b[1] /\ a[2] <= b[2])

\* A mutated window test: the end version is taken as exclusive.
InWindowExclusiveEnd(v, m) ==
    VerLE(m.start, v) /\ (m.end = NoEnd \/ (VerLE(v, m.end) /\ v # m.end))

\* start <= version <= end, an absent end always satisfied.
InWindow(v, m) == VerLE(m.start, v) /\ (m.end = NoEnd \/ VerLE(v, m.end))

(* --------------------------- declarations ----------------------------- *)

\* The name of the closure experimental_api returns: it is defined as
\* "_decorator" and the wrapped function's name is not copied onto it.
DecoratorName == "_decorator"

\* One version-gated declaration: @api_versions.wraps(start, end) on the
\* function defined at `line` of module `mod` as attribute `attr`; exp says
\* that @api_versions.experimental_api sits between wraps and the function.
Decl(mod, attr, start, end, exp, line) ==
    [mod |-> mod, attr |-> attr, start |-> start, end |-> end,
     exp |-> exp, line |-> line]

\* A mutated declaration: migrate_share gated from 1.0 like its neighbours.
MigrateShareDeclsFrom10 ==
    << Decl("shares", "migrate_share", <<1, 0>>, <<2, 6>>, FALSE, 202),
       Decl("shares", "migrate_share", <<2, 7>>, NoEnd,    FALSE, 207) >>

\* The two declarations of ShareManager.migrate_share.
MigrateShareDecls ==
    << Decl("shares", "migrate_share", <<2, 5>>, <<2, 6>>, FALSE, 202),
       Decl("shares", "migrate_share", <<2, 7>>, NoEnd,    FALSE, 207) >>

\* The version-gated declarations of shares.py, in definition order.
SharesDecls ==
    MigrateShareDecls \o
    << Decl("shares", "manage",        <<1, 0>>, <<2, 6>>, FALSE, 238),
       Decl("shares", "manage",        <<2, 7>>, NoEnd,    FALSE, 245),
       Decl("shares", "unmanage",      <<1, 0>>, <<2, 6>>, FALSE, 252),
       Decl("shares", "unmanage",      <<2, 7>>, NoEnd,    FALSE, 261),
       Decl("shares", "force_delete",  <<1, 0>>, <<2, 6>>, FALSE, 380),
       Decl("shares", "force_delete",  <<2, 7>>, NoEnd,    FALSE, 384),
       Decl("shares", "allow",         <<1, 0>>, <<2, 6>>, FALSE, 407),
       Decl("shares", "allow",         <<2, 7>>, NoEnd,    FALSE, 412),
       Decl("shares", "deny",          <<1, 0>>, <<2, 6>>, FALSE, 425),
       Decl("shares", "deny",          <<2, 7>>, NoEnd,    FALSE, 429),
       Decl("shares", "access_list",   <<1, 0>>, <<2, 6>>, FALSE, 445),
       Decl("shares", "access_list",   <<2, 7>>, NoEnd,    FALSE, 449),
       Decl("shares", "reset_state",   <<1, 0>>, <<2, 6>>, FALSE, 513),
       Decl("shares", "reset_state",   <<2, 7>>, NoEnd,    FALSE, 517),
       Decl("shares", "extend",        <<1, 0>>, <<2, 6>>, FALSE, 529),
       Decl("shares", "extend",        <<2, 7>>, NoEnd,    FALSE, 533),
       Decl("shares", "shrink",        <<1, 0>>, <<2, 6>>, FALSE, 545),
       Decl("shares", "shrink",        <<2, 7>>, NoEnd,    FALSE, 549) >>

\* The version-gated declarations of share_group_instances.py.
ShareGroupInstanceDecls ==
    << Decl("share_group_instances", "get",                 <<2, 56>>, NoEnd, TRUE, 53),
       Decl("share_group_instances", "list",                <<2, 56>>, NoEnd, TRUE, 66),
       Decl("share_group_instances", "force_delete",        <<2, 56>>, NoEnd, TRUE, 129),
       Decl("share_group_instances", "reset_state",         <<2, 56>>, NoEnd, TRUE, 139),
       Decl("share_group_instances", "reset_replica_state", <<2, 56>>, NoEnd, TRUE, 151) >>

\* The version-gated declarations of share_group_replicas.py.
ShareGroupReplicaDecls ==
    << Decl("share_group_replicas", "create",              <<2, 56>>, NoEnd, TRUE, 61),
       Decl("share_group_replicas", "get",                 <<2, 56>>, NoEnd, TRUE, 76),
       Decl("share_group_replicas", "list",                <<2, 56>>, NoEnd, TRUE, 89),
       Decl("share_group_replicas", "delete",              <<2, 56>>, NoEnd, TRUE, 140),
       Decl("share_group_replicas", "reset_state",         <<2, 56>>, NoEnd, TRUE, 171),
       Decl("share_group_replicas", "promote",             <<2, 56>>, NoEnd, TRUE, 183),
       Decl("share_group_replicas", "resync",              <<2, 56>>, NoEnd, TRUE, 193),
       Decl("share_group_replicas", "reset_replica_state", <<2, 11>>, NoEnd, TRUE, 203) >>

\* The version-gated declarations of share_group_snapshot_instances.py.
ShareGroupSnapshotInstanceDecls ==
    << Decl("share_group_snapshot_instances", "get",                 <<2, 56>>, NoEnd, TRUE, 49),
       Decl("share_group_snapshot_instances", "list",                <<2, 56>>, NoEnd, TRUE, 63),
       Decl("share_group_snapshot_instances", "force_delete",        <<2, 56>>, NoEnd, TRUE, 136),
       Decl("share_group_snapshot_instances", "reset_state",         <<2, 56>>, NoEnd, TRUE, 146),
       Decl("share_group_snapshot_instances", "reset_replica_state", <<2, 56>>, NoEnd, TRUE, 158) >>

Modules ==
    { "shares", "share_group_instances", "share_group_replicas",
      "share_group_snapshot_instances" }

ModuleDecls(mod) ==
    CASE mod = "shares"                         -> SharesDecls
      [] mod = "share_group_instances"          -> ShareGroupInstanceDecls
      [] mod = "share_group_replicas"           -> ShareGroupReplicaDecls
      [] mod = "share_group_snapshot_instances" -> ShareGroupSnapshotInstanceDecls

(* ---------------------------- the registry ----------------------------- *)

\* The name wraps() registers a callable under: the callable's own name.
\* With experimental_api below wraps, that callable is the closure
\* _decorator, whatever function it wraps.
FuncName(d) == IF d.exp THEN DecoratorName ELSE d.attr

AllDecls ==
    UNION { { ModuleDecls(mod)[i] : i \in 1..Len(ModuleDecls(mod)) } : mod \in Modules }

Names == { FuncName(d) : d \in AllDecls }

\* One registered implementation of a logical operation.
VersionedMethod(d) ==
    [name |-> FuncName(d), start |-> d.start, end |-> d.end, func |-> d,
     is_experimental |-> d.exp]

EmptyRegistry == [n \in Names |-> << >>]

\* Declaring an implementation appends it to its name's list.
AddVersionedMethod(reg, d) ==
    [reg EXCEPT ![FuncName(d)] = Append(@, VersionedMethod(d))]

RECURSIVE RegisterDecls(_, _, _)
\* The declarations of one module, registered in definition order.
RegisterDecls(reg, decls, i) ==
    IF i > Len(decls) THEN reg
    ELSE RegisterDecls(AddVersionedMethod(reg, decls[i]), decls, i + 1)

RECURSIVE ImportAll(_, _, _)
\* The modules of `order` imported one after the other.
ImportAll(reg, order, i) ==
    IF i > Len(order) THEN reg
    ELSE ImportAll(RegisterDecls(reg, ModuleDecls(order[i]), 1), order, i + 1)

\* Every order in which the four modules can be imported.
ImportOrders ==
    { o \in [1..Cardinality(Modules) -> Modules] :
        \A i, j \in DOMAIN o : i # j => o[i] # o[j] }

(* --------------------------- the dispatcher --------------------------- *)

\* The mutated resolution rule: the last registered matching window wins.
SelectIndexLast(methods, v) ==
    LET hits == { i \in 1..Len(methods) : InWindow(v, methods[i]) }
    IN  IF hits = {} THEN 0 ELSE CHOOSE i \in hits : \A j \in hits : j <= i

\* Index of the first registered window containing v, 0 when none does.
SelectIndex(methods, v) ==
    LET hits == { i \in 1..Len(methods) : InWindow(v, methods[i]) }
    IN  IF hits = {} THEN 0 ELSE CHOOSE i \in hits : \A j \in hits : i <= j

(* ------------------------- managers and calls -------------------------- *)

Managers ==
    { "ShareManager", "ShareGroupInstanceManager", "ShareGroupReplicaManager",
      "ShareGroupSnapshotInstanceManager" }

\* The module a manager class is defined in (whose globals its methods read).
ManagerModule(mgr) ==
    CASE mgr = "ShareManager"                      -> "shares"
      [] mgr = "ShareGroupInstanceManager"         -> "share_group_instances"
      [] mgr = "ShareGroupReplicaManager"          -> "share_group_replicas"
      [] mgr = "ShareGroupSnapshotInstanceManager" -> "share_group_snapshot_instances"

\* RESOURCES_PATH of a module ('/shares' is spelled out in shares.py).
ResourcesPath(mod) ==
    CASE mod = "shares"                         -> "/shares"
      [] mod = "share_group_instances"          -> "/share-group-instances"
      [] mod = "share_group_replicas"           -> "/share-group-replicas"
      [] mod = "share_group_snapshot_instances" -> "/share-group-snapshot-instances"

\* RESOURCE_NAME of a module: the key of a single-object response.
ResourceName(mod) ==
    CASE mod = "shares"                         -> "share"
      [] mod = "share_group_instances"          -> "share_group_instance"
      [] mod = "share_group_replicas"           -> "share_group_replica"
      [] mod = "share_group_snapshot_instances" -> "share_group_snapshot_instance"

\* A function that is not version-gated (ShareManager.get, .delete).
PlainFunc(mod, attr, line) == Decl(mod, attr, <<0, 0>>, NoEnd, FALSE, line)

\* The methods of ShareManager declared without api_versions.wraps.
PlainDecls ==
    { PlainFunc("shares", "create", 153),
      PlainFunc("shares", "get", 268),
      PlainFunc("shares", "update", 277),
      PlainFunc("shares", "list", 290),
      PlainFunc("shares", "delete", 360),
      PlainFunc("shares", "get_metadata", 452),
      PlainFunc("shares", "set_metadata", 460),
      PlainFunc("shares", "delete_metadata", 470),
      PlainFunc("shares", "update_all_metadata", 481),
      PlainFunc("shares", "list_instances", 552) }

\* The attributes of a manager class that are version-gated.
VersionedAttrs(mgr) ==
    { ModuleDecls(ManagerModule(mgr))[i].attr :
        i \in 1..Len(ModuleDecls(ManagerModule(mgr))) }

PlainAttrs(mgr) ==
    { d.attr : d \in { p \in PlainDecls : p.mod = ManagerModule(mgr) } }

\* The public operations of a manager class.
Attrs(mgr) == VersionedAttrs(mgr) \cup PlainAttrs(mgr)

\* The name the dispatcher bound to attribute `attr` of a manager class looks
\* up: the name its declaration was registered under.
DispatchName(mgr, attr) ==
    LET decls == ModuleDecls(ManagerModule(mgr))
        d == CHOOSE x \in { decls[i] : i \in 1..Len(decls) } : x.attr = attr
    IN  FuncName(d)

(* ------------------------------ the state ------------------------------ *)

VARIABLES
    api_version,      \* the client session's negotiated API version
    registry,         \* operation name -> registered VersionedMethods, in order
    default_headers,  \* the transport's shared default headers (name -> value)
    hooks,            \* the callbacks registered for 'modify_body_for_action', in order
    workload,         \* which argument lists the callers of this run pass
    threads,          \* the calling threads of this run
    calls,            \* per thread: the call it is running
    util              \* the call of a helper function (osc/utils, Share) of this run

vars == <<api_version, registry, default_headers, hooks, workload, threads, calls, util>>

(* ------------------------ requests and values -------------------------- *)

\* JSON null, and a JSON object as the sequence of its <<key, value>> pairs.
Null == <<"null">>
Obj(pairs) == <<"obj", pairs>>

NoBody == << >>
NoQuery == << >>

\* One request handed to the transport: the verb, the path (its segments),
\* the query string (key/value pairs in order) and the JSON body.
Request(meth, url, query, body) ==
    [meth |-> meth, url |-> url, query |-> query, body |-> body]

NoRequest == Request("none", << >>, NoQuery, NoBody)

\* What running an implementation comes to: an error raised before any
\* request, or the request it issues and the value it returns on success.
Outcome(err, req, ret) == [err |-> err, req |-> req, ret |-> ret]

Raises(err) == Outcome(err, NoRequest, "None")

\* Python truthiness of an argument value.
Truthy(x) == x \notin { "", "None", "False", "0", "{}", "[]" }

\* Positional argument i, or the parameter's default when it is not passed.
ArgOr(args, i, default) == IF i <= Len(args) THEN args[i] ELSE default

\* A dict is the sequence of its <<key, value>> items in insertion order.
DictHas(d, k) == \E i \in 1..Len(d) : d[i][1] = k

DictGet(d, k) == d[CHOOSE i \in 1..Len(d) : d[i][1] = k][2]

\* d[k] = v
DictSet(d, k, v) ==
    IF DictHas(d, k)
    THEN [i \in 1..Len(d) |-> IF d[i][1] = k THEN <<k, v>> ELSE d[i]]
    ELSE Append(d, <<k, v>>)

\* d.pop(k)
DictPop(d, k) == SelectSeq(d, LAMBDA item : item[1] # k)

\* The dicts the callers of the model pass as search_opts, by name.
SearchOpts(name) ==
    CASE name = "{}"           -> << >>
      [] name = "opts_abs"     -> << <<"status", "available">>, <<"b", "">>,
                                     <<"a", "x">> >>
      [] name = "opts_private" -> << <<"status", "error">>,
                                     <<"is_public", "False">> >>
      [] name = "opts_sgi"     -> << <<"share_group_instance", "i1">> >>

\* The keys of the model's dicts in Python's string order.
KeyOrder ==
    << "a", "b", "is_public", "share_group_id", "share_group_instance",
       "share_group_instance_id", "share_group_snapshot_id", "share_id",
       "sort_dir", "sort_key", "status" >>

\* k1 < k2 on strings
StrLess(k1, k2) ==
    LET Rank(k) == CHOOSE i \in 1..Len(KeyOrder) : KeyOrder[i] = k
    IN  Rank(k1) < Rank(k2)

\* A mutated filter: the items with falsy values stay.
KeepAllItems(items) == items

\* [(k, v) for (k, v) in items if v]
NonFalsyItems(items) == SelectSeq(items, LAMBDA item : Truthy(item[2]))

\* sorted(items) on items with distinct keys: ascending by key.
SortedItems(items) ==
    LET S == { items[i] : i \in 1..Len(items) }
    IN  [i \in 1..Len(items) |->
            CHOOSE p \in S :
                Cardinality({ q \in S : StrLess(q[1], p[1]) }) = i - 1]

\* The query string of a dict of filters: the key=value pairs of its truthy
\* values, ascending by key (urlencode(sorted(...)) of ShareManager.list, the
\* base manager's _build_query_string).
QueryString(search_opts) == SortedItems(NonFalsyItems(search_opts))

\* constants.SORT_DIR_VALUES
SORT_DIR_VALUES == { "asc", "desc" }

\* constants.SHARE_SORT_KEY_VALUES
SHARE_SORT_KEY_VALUES ==
    { "id", "status", "size", "created_at", "share_type_id", "share_type",
      "snapshot_id", "snapshot", "share_network_id", "share_network" }

\* constants.SHARE_GROUP_INSTANCE_SORT_KEY_VALUES,
\* constants.SHARE_GROUP_REPLICA_SORT_KEY_VALUES and
\* constants.SHARE_GROUP_SNAPSHOT_INSTANCE_SORT_KEY_VALUES, by module.
GroupSortKeyValues(mod) == { "id", "status", "created_at" }

\* A callback registered for 'modify_body_for_action' rewrites the body in
\* place; the callback h of the model leaves its mark as one more entry.
HookCall(h, body) == Append(body, h)

RECURSIVE RunHooksFrom(_, _, _)
RunHooksFrom(hs, i, body) ==
    IF i > Len(hs) THEN body
    ELSE RunHooksFrom(hs, i + 1, HookCall(hs[i], body))

\* run_hooks('modify_body_for_action', body): every registered callback, in
\* registration order, on the same body.
RunHooks(hs, body) == RunHooksFrom(hs, 1, body)

\* A mutated _action: the body goes out as built, the hooks are not run.
ShareActionWithoutHooks(action, share, info) ==
    Outcome("none",
            Request("POST", <<"/shares", share, "/action">>, NoQuery, <<action, info>>),
            "post_result")

\* ShareManager._action(action, share, info): builds {action: info}, runs the
\* hooks on it and POSTs it to /shares/<id>/action; returns what the
\* transport's post returns.
ShareAction(action, share, info) ==
    Outcome("none",
            Request("POST", <<"/shares", share, "/action">>, NoQuery,
                    RunHooks(hooks, <<action, info>>)),
            "post_result")

\* _action(target, action, info) of the three share-group managers: POST
\* {action: info} to RESOURCE_PATH_ACTION of the manager's module; returns
\* nothing.
GroupAction(self, target, action, info) ==
    Outcome("none",
            Request("POST",
                    <<ResourcesPath(ManagerModule(self)), target, "/action">>,
                    NoQuery, <<action, info>>),
            "None")

\* self._action(a, b, info) as the class of `self` defines it.
SelfAction(self, a, b, info) ==
    IF self = "ShareManager" THEN ShareAction(a, b, info)
    ELSE GroupAction(self, a, b, info)

\* The metadata keys the callers of the model name.  delete_metadata(share,
\* keys) takes its list of keys flattened: args[2], args[3], ... are the keys.
KeyNames == << "k1", "k2", "k3", "k4" >>

\* The least and the greatest number of positional arguments (after self)
\* a function accepts; kwargs of update are its second argument, by name.
Arity(func) ==
    CASE func.mod = "shares" /\ func.attr = "create"               -> <<2, 11>>
      [] func.mod = "shares" /\ func.attr = "list"                 -> <<0, 4>>
      [] func.mod = "shares" /\ func.attr = "update"               -> <<1, 2>>
      [] func.attr \in { "set_metadata", "update_all_metadata" }   -> <<2, 2>>
      [] func.attr = "delete_metadata"              -> <<1, 1 + Len(KeyNames)>>
      [] func.attr \in { "get_metadata", "list_instances" }        -> <<1, 1>>
      [] func.mod # "shares" /\ func.attr = "create"               -> <<1, 1>>
      [] func.mod # "shares" /\ func.attr = "list"                 -> <<0, 5>>
      [] func.attr \in { "get", "force_delete", "promote", "resync",
                         "unmanage", "access_list", "wrapped_op" } -> <<1, 1>>
      [] func.attr \in { "reset_state", "reset_replica_state", "deny",
                         "extend", "shrink" }                      -> <<2, 2>>
      [] func.attr = "migrate_share"                               -> <<3, 3>>
      [] func.attr = "allow"                                       -> <<4, 4>>
      [] func.attr = "manage"                                      -> <<3, 7>>
      [] func.attr = "delete"                                      -> <<1, 2>>

\* A mutated table: every ShareManager implementation posts the un-prefixed
\* action name, the [1.0, 2.6] ones included.
ShareActionNameUnprefixed(func) ==
    CASE func.attr = "migrate_share" -> "migrate_share"
      [] func.attr = "force_delete"  -> "force_delete"
      [] func.attr = "allow"         -> "allow_access"
      [] func.attr = "deny"          -> "deny_access"
      [] func.attr = "access_list"   -> "access_list"
      [] func.attr = "reset_state"   -> "reset_status"
      [] func.attr = "extend"        -> "extend"
      [] func.attr = "shrink"        -> "shrink"
      [] func.attr = "unmanage"      -> "unmanage"

\* The action name the ShareManager implementation defined at func.line
\* passes on to _action.
ShareActionName(func) ==
    CASE func.line = 202 -> "os-migrate_share"
      [] func.line = 207 -> "migrate_share"
      [] func.line = 261 -> "unmanage"
      [] func.line = 380 -> "os-force_delete"
      [] func.line = 384 -> "force_delete"
      [] func.line = 407 -> "os-allow_access"
      [] func.line = 412 -> "allow_access"
      [] func.line = 425 -> "os-deny_access"
      [] func.line = 429 -> "deny_access"
      [] func.line = 445 -> "os-access_list"
      [] func.line = 449 -> "access_list"
      [] func.line = 513 -> "os-reset_status"
      [] func.line = 517 -> "reset_status"
      [] func.line = 529 -> "os-extend"
      [] func.line = 533 -> "extend"
      [] func.line = 545 -> "os-shrink"
      [] func.line = 549 -> "shrink"

\* The sort key ShareManager.list sends for the one it is given: the aliases
\* are replaced.
SortKeyAlias(sort_key) ==
    CASE sort_key = "share_type"    -> "share_type_id"
      [] sort_key = "snapshot"      -> "snapshot_id"
      [] sort_key = "share_network" -> "share_network_id"
      [] OTHER                      -> sort_key

\* search_opts as ShareManager.list leaves it before it builds the query:
\* the caller's filters (none: an empty dict), sort_key and sort_dir when
\* given, and is_public = True when the filters have no is_public.
ShareListOpts(given, sort_key, sort_dir) ==
    LET so0 == IF given = "None" THEN << >> ELSE SearchOpts(given)
        so1 == IF sort_key # "None"
               THEN DictSet(so0, "sort_key", SortKeyAlias(sort_key)) ELSE so0
        so2 == IF sort_dir # "None" THEN DictSet(so1, "sort_dir", sort_dir) ELSE so1
    IN  IF DictHas(so2, "is_public") THEN so2
        ELSE DictSet(so2, "is_public", "True")

\* ShareManager.list(detailed, search_opts, sort_key, sort_dir)
ShareList(args) ==
    LET detailed == ArgOr(args, 1, "True")
        given == ArgOr(args, 2, "None")
        sort_key == ArgOr(args, 3, "None")
        sort_dir == ArgOr(args, 4, "None")
    IN  IF sort_key # "None" /\ sort_key \notin SHARE_SORT_KEY_VALUES
        THEN Raises("ValueError")
        ELSE IF sort_dir # "None" /\ sort_dir \notin SORT_DIR_VALUES
        THEN Raises("ValueError")
        ELSE Outcome("none",
                     Request("GET",
                             IF Truthy(detailed) THEN <<"/shares", "/detail">>
                             ELSE <<"/shares">>,
                             QueryString(ShareListOpts(given, sort_key, sort_dir)),
                             NoBody),
                     "ResourceList")

\* The body of a function of shares.py run with arguments `args`.
ShareBody(func, args) ==
    CASE func.attr = "migrate_share" ->
            ShareAction(ShareActionName(func), args[1],
                        Obj(<< <<"host", args[2]>>, <<"force_host_copy", args[3]>> >>))
      [] func.attr = "manage" ->
            Outcome("none",
                    Request("POST",
                            <<IF func.line = 238 THEN "/os-share-manage"
                              ELSE "/shares/manage">>,
                            NoQuery,
                            <<"share",
                              Obj(<< <<"service_host", args[1]>>,
                                     <<"share_type", ArgOr(args, 5, "None")>>,
                                     <<"protocol", args[2]>>,
                                     <<"export_path", args[3]>>,
                                     <<"driver_options",
                                       IF Truthy(ArgOr(args, 4, "None"))
                                       THEN args[4] ELSE "{}">>,
                                     <<"name", ArgOr(args, 6, "None")>>,
                                     <<"description", ArgOr(args, 7, "None")>> >>)>>),
                    "Resource")
      [] func.attr = "unmanage" /\ func.line = 252 ->
            Outcome("none",
                    Request("POST", <<"/os-share-unmanage", args[1], "/unmanage">>,
                            NoQuery, NoBody),
                    "post_result")
      [] func.attr = "unmanage" /\ func.line = 261 ->
            ShareAction(ShareActionName(func), args[1], Null)
      [] func.attr = "force_delete" ->
            ShareAction(ShareActionName(func), args[1], Null)
      [] func.attr = "allow" ->
            LET access_params ==
                    << <<"access_type", args[2]>>, <<"access_to", args[3]>> >> \o
                    (IF Truthy(args[4]) THEN << <<"access_level", args[4]>> >>
                     ELSE << >>)
                out == ShareAction(ShareActionName(func), args[1], Obj(access_params))
            IN  Outcome(out.err, out.req, "access")
      [] func.attr = "deny" ->
            ShareAction(ShareActionName(func), args[1],
                        Obj(<< <<"access_id", args[2]>> >>))
      [] func.attr = "access_list" ->
            LET out == ShareAction(ShareActionName(func), args[1], Null)
            IN  Outcome(out.err, out.req, "access_list")
      [] func.attr = "reset_state" ->
            ShareAction(ShareActionName(func), args[1],
                        Obj(<< <<"status", args[2]>> >>))
      [] func.attr \in { "extend", "shrink" } ->
            ShareAction(ShareActionName(func), args[1],
                        Obj(<< <<"new_size", args[2]>> >>))
      [] func.attr = "get" ->
            Outcome("none",
                    Request("GET", <<"/shares", args[1]>>, NoQuery, NoBody),
                    "Resource")
      [] func.attr = "create" ->
            Outcome("none",
                    Request("POST", <<"/shares">>, NoQuery,
                            <<"share",
                              Obj(<< <<"size", args[2]>>,
                                     <<"snapshot_id", ArgOr(args, 3, "None")>>,
                                     <<"name", ArgOr(args, 4, "None")>>,
                                     <<"description", ArgOr(args, 5, "None")>>,
                                     <<"metadata",
                                       IF ArgOr(args, 6, "None") # "None"
                                       THEN args[6] ELSE "{}">>,
                                     <<"share_proto", args[1]>>,
                                     <<"share_network_id", ArgOr(args, 7, "None")>>,
                                     <<"share_type", ArgOr(args, 8, "None")>>,
                                     <<"is_public", ArgOr(args, 9, "False")>>,
                                     <<"availability_zone", ArgOr(args, 10, "None")>>,
                                     <<"consistency_group_id",
                                       ArgOr(args, 11, "None")>> >>)>>),
                    "Resource")
      [] func.attr = "update" ->
            Outcome("none",
                    Request("PUT", <<"/shares", args[1]>>, NoQuery,
                            <<"share", ArgOr(args, 2, "{}")>>),
                    "Resource")
      [] func.attr = "list" -> ShareList(args)
      [] func.attr = "get_metadata" ->
            Outcome("none",
                    Request("GET", <<"/shares", args[1], "/metadata">>, NoQuery, NoBody),
                    "Resource")
      [] func.attr = "set_metadata" ->
            Outcome("none",
                    Request("POST", <<"/shares", args[1], "/metadata">>, NoQuery,
                            <<"metadata", args[2]>>),
                    "Resource")
      [] func.attr = "delete_metadata" ->
            Outcome("none", NoRequest, "None")
      [] func.attr = "update_all_metadata" ->
            Outcome("none",
                    Request("PUT", <<"/shares", args[1], "/metadata">>, NoQuery,
                            <<"metadata", args[2]>>),
                    "Resource")
      [] func.attr = "list_instances" ->
            Outcome("none",
                    Request("GET", <<"/shares", args[1], "/instances">>, NoQuery, NoBody),
                    "ResourceList")
      [] func.attr = "delete" ->
            Outcome("none",
                    Request("DELETE", <<"/shares", args[1]>>,
                            IF Truthy(ArgOr(args, 2, "None"))
                            THEN << <<"consistency_group_id", args[2]>> >>
                            ELSE NoQuery,
                            NoBody),
                    "None")

\* The filter key a share-group list() puts its first parameter under.
ListFilterKey(mod) ==
    CASE mod = "share_group_instances"          -> "share_group_id"
      [] mod = "share_group_replicas"           -> "share_id"
      [] mod = "share_group_snapshot_instances" -> "share_group_snapshot_id"

\* search_opts as a share-group list() leaves it before it builds the query:
\* the caller's filters (none or empty: a new dict), the first parameter
\* under the module's filter key when it is given, sort_key and sort_dir
\* when given; share_group_snapshot_instances renames the
\* 'share_group_instance' filter to 'share_group_instance_id'.
GroupListOpts(mod, first, given, sort_key, sort_dir) ==
    LET so0 == IF Truthy(given) THEN SearchOpts(given) ELSE << >>
        so1 == IF Truthy(first) THEN DictSet(so0, ListFilterKey(mod), first) ELSE so0
        so2 == IF sort_key # "None" THEN DictSet(so1, "sort_key", sort_key) ELSE so1
        so3 == IF sort_dir # "None" THEN DictSet(so2, "sort_dir", sort_dir) ELSE so2
    IN  IF mod = "share_group_snapshot_instances"
           /\ DictHas(so3, "share_group_instance")
        THEN DictSet(DictPop(so3, "share_group_instance"),
                     "share_group_instance_id",
                     DictGet(so3, "share_group_instance"))
        ELSE so3

\* list(first, detailed, search_opts, sort_key, sort_dir) of a share-group
\* module.
GroupList(func, args) ==
    LET first == ArgOr(args, 1, "None")
        detailed == ArgOr(args, 2, "True")
        given == ArgOr(args, 3, "None")
        sort_key == ArgOr(args, 4, "None")
        sort_dir == ArgOr(args, 5, "None")
    IN  IF sort_key # "None" /\ sort_key \notin GroupSortKeyValues(func.mod)
        THEN Raises("ValueError")
        ELSE IF sort_dir # "None" /\ sort_dir \notin SORT_DIR_VALUES
        THEN Raises("ValueError")
        ELSE Outcome("none",
                     Request("GET",
                             IF Truthy(detailed)
                             THEN <<ResourcesPath(func.mod), "/detail">>
                             ELSE <<ResourcesPath(func.mod)>>,
                             QueryString(GroupListOpts(func.mod, first, given,
                                                       sort_key, sort_dir)),
                             NoBody),
                     "ResourceList")

\* The body of a function of one of the three share-group modules, run with
\* `self` (a manager of any of the three classes) and arguments `args`.  The
\* paths and names are the globals of the module that defines the function;
\* _get, _list, _create and _delete are the base manager's, _action is the
\* one of self's class.
GroupBody(func, self, args) ==
    CASE func.attr = "get" ->
            Outcome("none",
                    Request("GET", <<ResourcesPath(func.mod), args[1]>>, NoQuery, NoBody),
                    "Resource")
      [] func.attr = "list" -> GroupList(func, args)
      [] func.attr = "create" ->
            Outcome("none",
                    Request("POST", <<ResourcesPath(func.mod)>>, NoQuery,
                            <<ResourceName(func.mod),
                              Obj(<< <<"share_group_id", args[1]>> >>)>>),
                    "Resource")
      [] func.attr = "delete" ->
            IF Truthy(ArgOr(args, 2, "False"))
            THEN Outcome("none",
                         Request("POST", <<ResourcesPath(func.mod), args[1], "/action">>,
                                 NoQuery, <<"force_delete", Null>>),
                         "None")
            ELSE Outcome("none",
                         Request("DELETE", <<ResourcesPath(func.mod), args[1]>>,
                                 NoQuery, NoBody),
                         "None")
      [] func.attr = "force_delete" ->
            SelfAction(self, args[1], "force_delete", Null)
      [] func.attr = "reset_state" ->
            SelfAction(self, args[1], "reset_status",
                       Obj(<< <<"status", args[2]>> >>))
      [] func.attr = "reset_replica_state" ->
            SelfAction(self, args[1], "reset_replica_state",
                       Obj(<< <<"replica_state", args[2]>> >>))
      [] func.attr \in { "promote", "resync" } ->
            SelfAction(self, args[1], func.attr, Null)

\* A function decorated with experimental_api and called directly with a
\* client as its first argument: it issues one request on that client's
\* transport and returns the parsed resource.
WrappedOp == Decl("caller", "wrapped_op", <<0, 0>>, NoEnd, TRUE, 0)

WrappedBody(args) ==
    Outcome("none", Request("GET", <<"/experimental", args[1]>>, NoQuery, NoBody),
            "Resource")

\* Calling func(self, *args): TypeError when the number of arguments does
\* not fit the function's parameters, its body otherwise.
Body(func, self, args) ==
    IF Len(args) < Arity(func)[1] \/ Len(args) > Arity(func)[2]
    THEN Raises("TypeError")
    ELSE CASE func.mod = "shares" -> ShareBody(func, args)
           [] func.mod = "caller" -> WrappedBody(args)
           [] OTHER               -> GroupBody(func, self, args)

\* A mutated delete_metadata: one DELETE for the first key, whatever the
\* number of keys.
BodyRequestsOnePerCall(func, self, args) ==
    IF func.mod = "shares" /\ func.attr = "delete_metadata"
    THEN IF Len(args) > 1
         THEN << Request("DELETE", <<"/shares", args[1], "/metadata", args[2]>>,
                         NoQuery, NoBody) >>
         ELSE << >>
    ELSE IF func.mod = "shares" /\ func.attr = "update"
            /\ ~Truthy(ArgOr(args, 2, "{}"))
    THEN << >>
    ELSE << Body(func, self, args).req >>

\* The requests the body of func issues when nothing fails, in order: one
\* DELETE per key for ShareManager.delete_metadata, none for
\* ShareManager.update without fields, the one request of the body otherwise.
BodyRequests(func, self, args) ==
    IF func.mod = "shares" /\ func.attr = "delete_metadata"
    THEN [i \in 1..(Len(args) - 1) |->
            Request("DELETE", <<"/shares", args[1], "/metadata", args[i + 1]>>,
                    NoQuery, NoBody)]
    ELSE IF func.mod = "shares" /\ func.attr = "update"
            /\ ~Truthy(ArgOr(args, 2, "{}"))
    THEN << >>
    ELSE << Body(func, self, args).req >>

(* --------------------------- calls in flight --------------------------- *)

\* constants.EXPERIMENTAL_HTTP_HEADER
EXPERIMENTAL_HTTP_HEADER == "X-Openstack-Manila-Api-Experimental"

\* Thread identifiers; `threads` is the subset that calls in a run.
ThreadIds == { 1, 2 }

NoFunc == Decl("none", "none", <<0, 0>>, NoEnd, FALSE, 0)

NoHeaders == [h \in {} |-> ""]

\* What a first argument can be: a manager, the client class the wrapper
\* recognizes (manilaclient.v1.client.Client), another client class.
FirstKinds == { "Manager", "V1Client", "OtherClient" }

\* A thread that is not in a call.  Of a call: nreq counts the requests it
\* handed to the transport, applied those the service carried out, req and
\* headers are the last request as sent.
Idle ==
    [pc |-> "idle", first |-> "none", self |-> "none", attr |-> "none",
     args |-> << >>, func |-> NoFunc, nreq |-> 0, applied |-> 0,
     req |-> NoRequest, headers |-> NoHeaders, ret |-> "None",
     result |-> "None", err |-> "none"]

\* The argument lists the callers of the model pass to each operation in
\* every workload.
CallArgs(mgr, attr) ==
    CASE attr \in { "get", "force_delete", "promote", "resync", "unmanage",
                    "access_list", "update" }       -> { <<"id1">> }
      [] attr = "create" /\ mgr # "ShareManager"   -> { <<"id1">> }
      [] attr = "reset_state"                      -> { <<"id1", "available">>,
                                                        <<"id1", "error">> }
      [] attr = "reset_replica_state"              -> { <<"id1", "in_sync">> }
      [] attr = "deny"                             -> { <<"id1", "acc1">> }
      [] attr \in { "extend", "shrink" }           -> { <<"id1", "2">> }
      [] attr = "migrate_share"                    -> { <<"id1", "host1", "True">> }
      [] attr = "allow"                            -> { <<"id1", "ip", "10.0.0.1", "rw">>,
                                                        <<"id1", "ip", "10.0.0.1", "">> }
      [] attr = "manage"                           -> { <<"host1", "NFS", "path1">> }
      [] attr = "delete" /\ mgr = "ShareManager"   -> { <<"id1">>, <<"id1", "cg1">> }
      [] attr = "delete" /\ mgr # "ShareManager"   -> { <<"id1">>, <<"id1", "True">> }
      [] attr = "list"                             -> { << >>, <<"g1">> }
      [] OTHER                                     -> { }

\* The further argument lists of the "full" workload: the ShareManager
\* operations on a share and its metadata, and list() of every manager
\* with filters, sort keys and sort directions, allowed and not.
MoreCallArgs(mgr, attr) ==
    CASE attr = "create" /\ mgr = "ShareManager" -> { <<"NFS", "1">> }
      [] attr = "update"                         -> { <<"id1", "kw1">> }
      [] attr \in { "get_metadata", "list_instances" } -> { <<"id1">> }
      [] attr \in { "set_metadata", "update_all_metadata" } ->
            { <<"id1", "md1">> }
      [] attr = "delete_metadata" ->
            { <<"id1">> \o SubSeq(KeyNames, 1, n) : n \in 0..MaxReq }
      [] attr = "list" /\ mgr = "ShareManager" ->
            { <<"True", o, k, r>> :
                o \in { "None", "{}", "opts_abs", "opts_private" },
                k \in { "None", "status", "share_type", "bogus" },
                r \in { "None", "asc", "bogus" } }
            \cup { <<"False", "opts_abs">>, <<"False", "None", "bogus">> }
      [] attr = "list" /\ mgr # "ShareManager" ->
            { <<g, "True", o, k, r>> :
                g \in { "None", "g1" },
                o \in { "None", "opts_sgi" },
                k \in { "None", "status", "bogus" },
                r \in { "None", "desc", "bogus" } }
      [] OTHER -> { }

ArgLists(mgr, attr) ==
    IF workload = "full" THEN CallArgs(mgr, attr) \cup MoreCallArgs(mgr, attr)
    ELSE CallArgs(mgr, attr)

\* The hook registrations a run can start with.
HookLists == { << >>, <<"h1">>, <<"h1", "h2">>, <<"h2", "h1">> }

\* No helper function is being called.
NoUtil == [fn |-> "none"]

\* A mutated check: any client object passes, not only the v1 Client.
IsAnyClient(first) == first \in { "V1Client", "OtherClient" }

\* isinstance(client, manilaclient.v1.client.Client)
IsRecognizedClient(first) == first = "V1Client"

\* dh[constants.EXPERIMENTAL_HTTP_HEADER] = 'true'
SetExperimental(dh) ==
    [h \in DOMAIN dh \cup { EXPERIMENTAL_HTTP_HEADER } |->
        IF h = EXPERIMENTAL_HTTP_HEADER THEN "true" ELSE dh[h]]

\* The header map carries the experimental header with value 'true'.
HasExperimental(dh) ==
    EXPERIMENTAL_HTTP_HEADER \in DOMAIN dh /\ dh[EXPERIMENTAL_HTTP_HEADER] = "true"

\* What _decorator hands back: it calls f(*args, **kwargs) and falls off
\* its end, so the caller gets None whatever f returned.
WrapperResult(ret) == "None"

\* The state after construction: every module imported (in some order), the
\* session version negotiated, no default header set, no call running.
InitWith(ths, versions, orders, hooklists, load) ==
    /\ api_version \in versions
    /\ registry \in { ImportAll(EmptyRegistry, o, 1) : o \in orders }
    /\ default_headers = NoHeaders
    /\ hooks \in hooklists
    /\ workload = load
    /\ threads = ths
    /\ calls = [t \in ThreadIds |-> Idle]
    /\ util = NoUtil

Init == InitWith({ 1 }, Versions, ImportOrders, { << >> }, "basic")

(* ------------------------------ the steps ------------------------------ *)

\* mgr.attr(*args) on an operation declared without api_versions.wraps.
InvokePlain(t, mgr, attr, args) ==
    /\ calls[t].pc = "idle"
    /\ attr \in PlainAttrs(mgr)
    /\ LET f == CHOOSE d \in PlainDecls : d.mod = ManagerModule(mgr) /\ d.attr = attr
       IN  calls' = [calls EXCEPT ![t] =
                [Idle EXCEPT !.pc = "body", !.first = "Manager", !.self = mgr,
                             !.attr = attr, !.args = args, !.func = f]]
    /\ UNCHANGED <<api_version, registry, default_headers, hooks, workload, threads, util>>

\* mgr.attr(*args) on a version-gated operation: the dispatcher picks the
\* first registered window of the operation's name that contains the
\* session version and calls its function, or raises
\* VersionNotFoundForAPIMethod.
InvokeVersioned(t, mgr, attr, args) ==
    /\ calls[t].pc = "idle"
    /\ attr \in VersionedAttrs(mgr)
    /\ LET methods == registry[DispatchName(mgr, attr)]
           i == SelectIndex(methods, api_version)
           call == [Idle EXCEPT !.first = "Manager", !.self = mgr, !.attr = attr,
                                !.args = args]
       IN  calls' = [calls EXCEPT ![t] =
                IF i = 0
                THEN [call EXCEPT !.pc = "done",
                                  !.err = "VersionNotFoundForAPIMethod"]
                ELSE [call EXCEPT !.pc = IF methods[i].func.exp THEN "wrapper"
                                         ELSE "body",
                                  !.func = methods[i].func]]
    /\ UNCHANGED <<api_version, registry, default_headers, hooks, workload, threads, util>>

\* A function decorated with experimental_api called with a client object
\* as its first argument.
InvokeWrapped(t, first, args) ==
    /\ calls[t].pc = "idle"
    /\ first \in FirstKinds \ { "Manager" }
    /\ calls' = [calls EXCEPT ![t] =
            [Idle EXCEPT !.pc = "wrapper", !.first = first, !.self = first,
                         !.attr = WrappedOp.attr, !.args = args, !.func = WrappedOp]]
    /\ UNCHANGED <<api_version, registry, default_headers, hooks, workload, threads, util>>

\* A mutated wrapper: for any other first argument it takes the header off
\* the default headers instead of leaving them alone.
WrapperEnterResetting(t) ==
    /\ calls[t].pc = "wrapper"
    /\ default_headers' =
            IF IsRecognizedClient(calls[t].first)
            THEN SetExperimental(default_headers)
            ELSE [h \in DOMAIN default_headers \ { EXPERIMENTAL_HTTP_HEADER } |->
                    default_headers[h]]
    /\ calls' = [calls EXCEPT ![t].pc = "body"]
    /\ UNCHANGED <<api_version, registry, hooks, workload, threads, util>>

\* _decorator up to its call of f: the header is set when the first argument
\* is the recognized client class.
WrapperEnter(t) ==
    /\ calls[t].pc = "wrapper"
    /\ default_headers' =
            IF IsRecognizedClient(calls[t].first)
            THEN SetExperimental(default_headers)
            ELSE default_headers
    /\ calls' = [calls EXCEPT ![t].pc = "body"]
    /\ UNCHANGED <<api_version, registry, hooks, workload, threads, util>>

\* The selected function runs and raises before it reaches the transport.
BodyRaises(t) ==
    /\ calls[t].pc = "body"
    /\ LET out == Body(calls[t].func, calls[t].self, calls[t].args)
       IN  /\ out.err # "none"
           /\ calls' = [calls EXCEPT ![t].pc = "done", ![t].err = out.err]
    /\ UNCHANGED <<api_version, registry, default_headers, hooks, workload, threads, util>>

\* The selected function returns without a request: update() without
\* fields, delete_metadata() without keys.
BodyNoRequest(t) ==
    /\ calls[t].pc = "body"
    /\ LET c == calls[t]
           out == Body(c.func, c.self, c.args)
       IN  /\ out.err = "none"
           /\ Len(BodyRequests(c.func, c.self, c.args)) = 0
           /\ calls' = [calls EXCEPT ![t].pc = "done"]
    /\ UNCHANGED <<api_version, registry, default_headers, hooks, workload, threads, util>>

\* The selected function issues its next request, sent with the default
\* headers of that moment, and the service carries it out.  After the last
\* request the value travels back to the caller (through _decorator when
\* the function is wrapped).
BodyRequest(t) ==
    /\ calls[t].pc = "body"
    /\ calls[t].nreq < MaxReq
    /\ LET c == calls[t]
           out == Body(c.func, c.self, c.args)
           reqs == BodyRequests(c.func, c.self, c.args)
           sent == [c EXCEPT !.nreq = @ + 1, !.applied = @ + 1,
                             !.req = reqs[c.nreq + 1],
                             !.headers = default_headers]
       IN  /\ out.err = "none"
           /\ c.nreq < Len(reqs)
           /\ calls' = [calls EXCEPT ![t] =
                    IF c.nreq + 1 = Len(reqs)
                    THEN [sent EXCEPT !.pc = "done", !.ret = out.ret,
                                      !.result = IF c.func.exp
                                                 THEN WrapperResult(out.ret)
                                                 ELSE out.ret]
                    ELSE sent]
    /\ UNCHANGED <<api_version, registry, default_headers, hooks, workload, threads, util>>

\* A mutated failure path: the error of a request is noted and the loop
\* goes on with the requests that remain.
BodyRequestFailsAndGoesOn(t) ==
    /\ calls[t].pc = "body"
    /\ calls[t].nreq < MaxReq
    /\ LET c == calls[t]
           out == Body(c.func, c.self, c.args)
           reqs == BodyRequests(c.func, c.self, c.args)
       IN  /\ out.err = "none"
           /\ c.nreq < Len(reqs)
           /\ calls' = [calls EXCEPT ![t] =
                    [c EXCEPT !.pc = IF c.nreq + 1 = Len(reqs) THEN "done"
                                     ELSE "body",
                              !.nreq = @ + 1, !.req = reqs[c.nreq + 1],
                              !.headers = default_headers,
                              !.err = "TransportError"]]
    /\ UNCHANGED <<api_version, registry, default_headers, hooks, workload, threads, util>>

\* The selected function issues its next request and the transport reports
\* a failure: nothing catches it, so the function (the loop of
\* delete_metadata included), _decorator and the dispatcher are left at
\* once and the failure reaches the caller.
BodyRequestFails(t) ==
    /\ calls[t].pc = "body"
    /\ calls[t].nreq < MaxReq
    /\ LET c == calls[t]
           out == Body(c.func, c.self, c.args)
           reqs == BodyRequests(c.func, c.self, c.args)
       IN  /\ out.err = "none"
           /\ c.nreq < Len(reqs)
           /\ calls' = [calls EXCEPT ![t] =
                    [c EXCEPT !.pc = "done", !.nreq = @ + 1,
                              !.req = reqs[c.nreq + 1],
                              !.headers = default_headers,
                              !.err = "TransportError"]]
    /\ UNCHANGED <<api_version, registry, default_headers, hooks, workload, threads, util>>

\* The caller takes the result; the thread is free for its next call.
Return(t) ==
    /\ calls[t].pc = "done"
    /\ calls' = [calls EXCEPT ![t] = Idle]
    /\ UNCHANGED <<api_version, registry, default_headers, hooks, workload, threads, util>>

CallPlain ==
    \E t \in threads :
        /\ calls[t].pc = "idle"
        /\ \E mgr \in Managers : \E attr \in PlainAttrs(mgr) :
              \E args \in ArgLists(mgr, attr) : InvokePlain(t, mgr, attr, args)

CallVersioned ==
    \E t \in threads :
        /\ calls[t].pc = "idle"
        /\ \E mgr \in Managers : \E attr \in VersionedAttrs(mgr) :
              \E args \in ArgLists(mgr, attr) : InvokeVersioned(t, mgr, attr, args)

CallWrapped ==
    \E t \in threads : \E first \in FirstKinds : InvokeWrapped(t, first, <<"id1">>)

StepWrapper == \E t \in threads : WrapperEnter(t)

StepBodyRaises == \E t \in threads : BodyRaises(t)

StepBodyNoRequest == \E t \in threads : BodyNoRequest(t)

StepBodyRequest == \E t \in threads : BodyRequest(t)

StepBodyRequestFails == \E t \in threads : BodyRequestFails(t)

StepReturn == \E t \in threads : Return(t)

Next ==
    \/ CallPlain
    \/ CallVersioned
    \/ CallWrapped
    \/ StepWrapper
    \/ StepBodyRaises
    \/ StepBodyNoRequest
    \/ StepBodyRequest
    \/ StepBodyRequestFails
    \/ StepReturn

Spec == Init /\ [][Next]_vars

\* Two calling threads on the one transport, at a session version below
\* and at one above the share-group window, the modules imported in the
\* order they are listed in.
ConcVersions == { APIVersion(2, 6), APIVersion(2, 56) }

ConcOrders ==
    { << "shares", "share_group_instances", "share_group_replicas",
         "share_group_snapshot_instances" >> }

InitConc == InitWith(ThreadIds, ConcVersions, ConcOrders, { << >> }, "basic")

SpecConc == InitConc /\ [][Next]_vars

\* One calling thread with the full workload and every list of hooks, at
\* the session versions on both sides of each window's bounds.
OpsVersions ==
    { APIVersion(0, 9), APIVersion(2, 6), APIVersion(2, 7), APIVersion(2, 11),
      APIVersion(2, 56) }

InitOps == InitWith({ 1 }, OpsVersions, ImportOrders, HookLists, "full")

SpecOps == InitOps /\ [][Next]_vars

(* ------------------- helper functions on text arguments ----------------- *)

\* A text is the sequence of its characters.

\* The longest 'key=value' item and the most items the callers of the model
\* pass to extract_properties; the most dot-separated components of the
\* addresses they pass to _validate_ip_range.
MaxItemLen == 3
MaxItems == 2
MaxComps == 5

\* The index of the first (of the last) occurrence of ch in s, 0 when it
\* does not occur.
IndexOf(s, ch) ==
    IF \E i \in 1..Len(s) : s[i] = ch
    THEN CHOOSE i \in 1..Len(s) : s[i] = ch /\ \A j \in 1..(i - 1) : s[j] # ch
    ELSE 0

LastIndexOf(s, ch) ==
    IF \E i \in 1..Len(s) : s[i] = ch
    THEN CHOOSE i \in 1..Len(s) : s[i] = ch /\ \A j \in (i + 1)..Len(s) : s[j] # ch
    ELSE 0

\* A mutated split: at the last occurrence of ch (rsplit(ch, 1)).
SplitAtLast(s, ch) ==
    LET i == LastIndexOf(s, ch)
    IN  IF i = 0 THEN << s >>
        ELSE << SubSeq(s, 1, i - 1), SubSeq(s, i + 1, Len(s)) >>

\* s.split(ch, 1)
SplitOnce(s, ch) ==
    LET i == IndexOf(s, ch)
    IN  IF i = 0 THEN << s >>
        ELSE << SubSeq(s, 1, i - 1), SubSeq(s, i + 1, Len(s)) >>

\* s.split(ch)
RECURSIVE Split(_, _)
Split(s, ch) ==
    LET i == IndexOf(s, ch)
    IN  IF i = 0 THEN << s >>
        ELSE << SubSeq(s, 1, i - 1) >> \o Split(SubSeq(s, i + 1, Len(s)), ch)

\* What a helper call comes to: the error it raises or the value it returns.
UtilRaises(err) == [err |-> err, value |-> << >>]

UtilReturns(value) == [err |-> "none", value |-> value]

\* The loop of extract_properties from item i on, result_dict being the
\* dict built so far: an item without '=' cannot be unpacked into (key,
\* value) and a key already in the dict is refused, both with CommandError.
RECURSIVE ExtractFrom(_, _, _)
ExtractFrom(properties, i, result_dict) ==
    IF i > Len(properties) THEN UtilReturns(result_dict)
    ELSE LET parts == SplitOnce(properties[i], "=")
         IN  IF Len(parts) # 2 THEN UtilRaises("CommandError")
             ELSE IF DictHas(result_dict, parts[1]) THEN UtilRaises("CommandError")
             ELSE ExtractFrom(properties, i + 1,
                              DictSet(result_dict, parts[1], parts[2]))

\* osc.utils.extract_properties(properties)
extract_properties(properties) == ExtractFrom(properties, 1, << >>)

Digits == { "0", "1", "2", "3", "4", "5", "6", "7", "8", "9" }

DigitValue(ch) ==
    CASE ch = "0" -> 0 [] ch = "1" -> 1 [] ch = "2" -> 2 [] ch = "3" -> 3
      [] ch = "4" -> 4 [] ch = "5" -> 5 [] ch = "6" -> 6 [] ch = "7" -> 7
      [] ch = "8" -> 8 [] ch = "9" -> 9

\* s.strip() for blanks.
RECURSIVE Strip(_)
Strip(s) ==
    IF s # << >> /\ s[1] = " " THEN Strip(Tail(s))
    ELSE IF s # << >> /\ s[Len(s)] = " " THEN Strip(SubSeq(s, 1, Len(s) - 1))
    ELSE s

\* The value of a run of digits and underscores read from the left, acc
\* being the value of what was read.
RECURSIVE DigitsValue(_, _)
DigitsValue(s, acc) ==
    IF s = << >> THEN acc
    ELSE IF s[1] = "_" THEN DigitsValue(Tail(s), acc)
    ELSE DigitsValue(Tail(s), 10 * acc + DigitValue(s[1]))

\* Python's int(s) on a text: blanks around it are dropped, one sign may
\* lead, then come decimal digits, single underscores allowed between
\* them; anything else is a ValueError.
PyInt(s) ==
    LET t == Strip(s)
        signed == t # << >> /\ t[1] \in { "+", "-" }
        d == IF signed THEN Tail(t) ELSE t
        wellformed ==
            /\ d # << >>
            /\ \A i \in 1..Len(d) : d[i] \in Digits \cup { "_" }
            /\ d[1] # "_" /\ d[Len(d)] # "_"
            /\ \A i \in 1..(Len(d) - 1) : ~(d[i] = "_" /\ d[i + 1] = "_")
    IN  IF ~wellformed THEN [err |-> "ValueError", value |-> 0]
        ELSE [err |-> "none",
              value |-> IF signed /\ t[1] = "-" THEN 0 - DigitsValue(d, 0)
                        ELSE DigitsValue(d, 0)]

\* A mutated range test: the upper end is left out.
BelowUpper(lo, v, hi) == lo <= v /\ v < hi

\* lo <= v <= hi
Within(lo, v, hi) == lo <= v /\ v <= hi

\* Share._validate_ip_range(ip_range): more than one '/', a prefix that is
\* no integer in 0..32, a number of components other than four, or a
\* component that is no integer in 0..255 raise CommandError.
validate_ip_range(ip_range) ==
    LET parts == Split(ip_range, "/")
        prefix == PyInt(parts[2])
        items == Split(parts[1], ".")
    IN  IF Len(parts) > 2 THEN UtilRaises("CommandError")
        ELSE IF Len(parts) = 2
                /\ (prefix.err # "none" \/ ~Within(0, prefix.value, 32))
        THEN UtilRaises("CommandError")
        ELSE IF Len(items) # 4 THEN UtilRaises("CommandError")
        ELSE IF \E i \in 1..Len(items) :
                    \/ PyInt(items[i]).err # "none"
                    \/ ~Within(0, PyInt(items[i]).value, 255)
        THEN UtilRaises("CommandError")
        ELSE UtilReturns(<< >>)

\* The 'key=value' items the callers of the model pass: every text of at
\* most MaxItemLen characters out of a and '='.
PropertyItems == UNION { [1..n -> { "a", "=" }] : n \in 0..MaxItemLen }

PropertyLists == UNION { [1..n -> PropertyItems] : n \in 0..MaxItems }

\* The sequences joined with the separator between them.
RECURSIVE Join(_, _)
Join(seqs, sep) ==
    IF Len(seqs) = 0 THEN << >>
    ELSE IF Len(seqs) = 1 THEN seqs[1]
    ELSE seqs[1] \o sep \o Join(Tail(seqs), sep)

\* The components of the addresses the callers of the model pass: in-range
\* numbers, and at most one component of another kind.
PlainComps == { <<"0">>, <<"2", "5", "5">> }

OddComps ==
    { <<"2", "5", "6">>, <<"+", "1">>, <<"-", "1">>, <<" ", "7">>, <<"x">>,
      << >>, <<"1", "_", "0">>, <<"0", "0", "9">> }

Addresses ==
    UNION { { Join(cs, <<".">>) :
                cs \in { c \in [1..n -> PlainComps \cup OddComps] :
                           \A i, j \in 1..n :
                               (c[i] \in OddComps /\ c[j] \in OddComps) => i = j } } :
            n \in 1..MaxComps }

\* What follows the address: nothing, '/' and a prefix, or two of them.
Suffixes ==
    { << >>, <<"/", "0">>, <<"/", "2", "4">>, <<"/", "3", "2">>,
      <<"/", "3", "3">>, <<"/", "+", "8">>, <<"/", "-", "1">>, <<"/", "x">>,
      <<"/">>, <<"/", "2", "4", "/", "8">> }

IpRanges == { a \o s : a \in Addresses, s \in Suffixes }

\* The helper calls of a run.
UtilCalls ==
    { [fn |-> "extract_properties", arg |-> p, done |-> FALSE,
       out |-> UtilReturns(<< >>)] : p \in PropertyLists }
    \cup
    { [fn |-> "validate_ip_range", arg |-> r, done |-> FALSE,
       out |-> UtilReturns(<< >>)] : r \in IpRanges }

\* A run that calls one helper function on one argument; no manager call
\* is made in it.
InitUtil ==
    /\ api_version = APIVersion(0, 0)
    /\ registry = EmptyRegistry
    /\ default_headers = NoHeaders
    /\ hooks = << >>
    /\ workload = "none"
    /\ threads = { }
    /\ calls = [t \in ThreadIds |-> Idle]
    /\ util \in UtilCalls

ApplyExtractProperties ==
    /\ util.fn = "extract_properties"
    /\ ~util.done
    /\ util' = [util EXCEPT !.done = TRUE, !.out = extract_properties(util.arg)]
    /\ UNCHANGED <<api_version, registry, default_headers, hooks, workload, threads, calls>>

ApplyValidateIpRange ==
    /\ util.fn = "validate_ip_range"
    /\ ~util.done
    /\ util' = [util EXCEPT !.done = TRUE, !.out = validate_ip_range(util.arg)]
    /\ UNCHANGED <<api_version, registry, default_headers, hooks, workload, threads, calls>>

NextUtil ==
    \/ ApplyExtractProperties
    \/ ApplyValidateIpRange

SpecUtil == InitUtil /\ [][NextUtil]_vars

(* ----------------------------- properties ------------------------------ *)

\* A version as one number, for the comparisons the properties state.
VerNum(v) == v[1] * 1000 + v[2]

\* v lies in the inclusive window of m, an absent end being unbounded.
Contains(v, m) ==
    /\ VerNum(m.start) <= VerNum(v)
    /\ (m.end = NoEnd \/ VerNum(v) <= VerNum(m.end))

\* Two registered windows have a version in common.
WindowsOverlap(a, b) ==
    /\ (b.end = NoEnd \/ VerNum(a.start) <= VerNum(b.end))
    /\ (a.end = NoEnd \/ VerNum(b.start) <= VerNum(a.end))

\* The windows registered under one name are pairwise non-overlapping.
NonOverlapping(methods) ==
    \A i, j \in 1..Len(methods) : i < j => ~WindowsOverlap(methods[i], methods[j])

\* Thread t is in (or has just finished) a call of a version-gated manager
\* operation.
GatedCall(t) ==
    /\ calls[t].pc # "idle"
    /\ calls[t].first = "Manager"
    /\ calls[t].attr \in VersionedAttrs(calls[t].self)

\* The list the dispatcher of t's call reads.
MethodsOf(t) == registry[DispatchName(calls[t].self, calls[t].attr)]

\* C1: for an operation name whose registered windows are pairwise
\* non-overlapping and any session version, the call runs exactly the
\* implementation whose inclusive window (absent end = unbounded) contains
\* the version, and when no window contains it the call has failed with
\* VersionNotFoundForAPIMethod.
C1_DispatchSelectsUniqueWindow ==
    \A t \in threads :
        (GatedCall(t) /\ NonOverlapping(MethodsOf(t))) =>
            LET hits == { i \in 1..Len(MethodsOf(t)) :
                            Contains(api_version, MethodsOf(t)[i]) }
            IN  /\ Cardinality(hits) <= 1
                /\ hits = {} =>
                      /\ calls[t].err = "VersionNotFoundForAPIMethod"
                      /\ calls[t].func = NoFunc
                /\ \A i \in hits :
                      /\ calls[t].func = MethodsOf(t)[i].func
                      /\ calls[t].err # "VersionNotFoundForAPIMethod"

\* A ShareManager.force_delete call at the closing edge 2.6 of the first of
\* its two non-overlapping windows has run that window's implementation.
C1_Witness ==
    \E t \in threads :
        /\ GatedCall(t)
        /\ calls[t].self = "ShareManager" /\ calls[t].attr = "force_delete"
        /\ NonOverlapping(MethodsOf(t)) /\ Len(MethodsOf(t)) = 2
        /\ api_version = APIVersion(2, 6)
        /\ calls[t].pc = "done" /\ calls[t].err = "none"
        /\ calls[t].func.line = 380

\* The ShareManager operations declared with [1.0, 2.6] and [2.7, unbounded).
TwoWindowOps ==
    { "force_delete", "allow", "deny", "access_list", "reset_state", "extend",
      "shrink" }

\* The un-prefixed action name of each of them.
PlainActionName(attr) ==
    CASE attr = "force_delete" -> "force_delete"
      [] attr = "allow"        -> "allow_access"
      [] attr = "deny"         -> "deny_access"
      [] attr = "access_list"  -> "access_list"
      [] attr = "reset_state"  -> "reset_status"
      [] attr = "extend"       -> "extend"
      [] attr = "shrink"       -> "shrink"

\* The same name carrying the 'os-' prefix.
OsActionName(attr) ==
    CASE attr = "force_delete" -> "os-force_delete"
      [] attr = "allow"        -> "os-allow_access"
      [] attr = "deny"         -> "os-deny_access"
      [] attr = "access_list"  -> "os-access_list"
      [] attr = "reset_state"  -> "os-reset_status"
      [] attr = "extend"       -> "os-extend"
      [] attr = "shrink"       -> "os-shrink"

\* Thread t has finished a call of one of the two-window ShareManager
\* operations.
TwoWindowCallDone(t) ==
    /\ calls[t].pc = "done"
    /\ calls[t].first = "Manager" /\ calls[t].self = "ShareManager"
    /\ calls[t].attr \in TwoWindowOps

\* C2: force_delete, allow, deny, access_list, reset_state, extend and
\* shrink of ShareManager post the 'os-' prefixed action name at every
\* version in [1.0, 2.6], the un-prefixed name at every version >= 2.7, and
\* fail with VersionNotFoundForAPIMethod below 1.0.
C2_PrefixByVersion ==
    \A t \in threads :
        TwoWindowCallDone(t) =>
            /\ VerNum(api_version) < VerNum(APIVersion(1, 0)) =>
                  /\ calls[t].err = "VersionNotFoundForAPIMethod"
                  /\ calls[t].nreq = 0
            /\ (/\ VerNum(APIVersion(1, 0)) <= VerNum(api_version)
                /\ VerNum(api_version) <= VerNum(APIVersion(2, 6))) =>
                  /\ calls[t].nreq = 1
                  /\ calls[t].req.meth = "POST"
                  /\ calls[t].req.body[1] = OsActionName(calls[t].attr)
            /\ VerNum(APIVersion(2, 7)) <= VerNum(api_version) =>
                  /\ calls[t].nreq = 1
                  /\ calls[t].req.meth = "POST"
                  /\ calls[t].req.body[1] = PlainActionName(calls[t].attr)

\* ShareManager.reset_state at 1.5 has posted os-reset_status.
C2_Witness ==
    \E t \in threads :
        /\ TwoWindowCallDone(t)
        /\ calls[t].attr = "reset_state"
        /\ api_version = APIVersion(1, 5)
        /\ calls[t].nreq = 1
        /\ calls[t].req.body[1] = "os-reset_status"

\* C3: a call that failed with VersionNotFoundForAPIMethod has invoked no
\* implementation and issued no request; ShareManager.migrate_share at any
\* version below 2.5 ends that way.
C3_NoRequestOnVersionNotFound ==
    \A t \in threads :
        /\ calls[t].err = "VersionNotFoundForAPIMethod" =>
              /\ calls[t].func = NoFunc
              /\ calls[t].nreq = 0
              /\ calls[t].req = NoRequest
        /\ (/\ calls[t].pc # "idle"
            /\ calls[t].self = "ShareManager" /\ calls[t].attr = "migrate_share"
            /\ VerNum(api_version) < VerNum(APIVersion(2, 5))) =>
              /\ calls[t].pc = "done"
              /\ calls[t].err = "VersionNotFoundForAPIMethod"
              /\ calls[t].nreq = 0

\* migrate_share called at 2.4 has failed without a request.
C3_Witness ==
    \E t \in threads :
        /\ calls[t].self = "ShareManager" /\ calls[t].attr = "migrate_share"
        /\ api_version = APIVersion(2, 4)
        /\ calls[t].pc = "done"
        /\ calls[t].err = "VersionNotFoundForAPIMethod"
        /\ calls[t].nreq = 0

\* C4: once every version-gated declaration of the repository is
\* registered, the windows registered under each operation name are
\* pairwise non-overlapping.
C4_RegistryNonOverlapping ==
    \A n \in Names : NonOverlapping(registry[n])

\* C5: when several windows registered under the operation's name contain
\* the session version, the call runs the implementation of the one that
\* was registered first, however many later ones match.
C5_FirstRegisteredMatchWins ==
    \A t \in threads :
        (GatedCall(t) /\ calls[t].err # "VersionNotFoundForAPIMethod") =>
            \E i \in 1..Len(MethodsOf(t)) :
                /\ Contains(api_version, MethodsOf(t)[i])
                /\ \A j \in 1..(i - 1) : ~Contains(api_version, MethodsOf(t)[j])
                /\ calls[t].func = MethodsOf(t)[i].func

\* A share-group call at 2.56, where more than one window of its name
\* matches, is running the first registered of them.
C5_Witness ==
    \E t \in threads :
        /\ GatedCall(t)
        /\ calls[t].self = "ShareGroupReplicaManager"
        /\ api_version = APIVersion(2, 56)
        /\ Cardinality({ i \in 1..Len(MethodsOf(t)) :
                           Contains(api_version, MethodsOf(t)[i]) }) > 1
        /\ calls[t].pc = "body"
        /\ calls[t].func = MethodsOf(t)[1].func

\* Thread t is in a call that went through the experimental wrapper.
WrappedCall(t) == calls[t].pc # "idle" /\ calls[t].func.exp

\* C6 (first half, as a state predicate): once the wrapper has run for a
\* call made through the recognized client class, the experimental header
\* is 'true' in the default headers, and the request the wrapped operation
\* then issued was sent with it.
C6_HeaderSetBeforeRequest ==
    \A t \in threads :
        (WrappedCall(t) /\ calls[t].first = "V1Client"
            /\ calls[t].pc \in { "body", "done" }) =>
            /\ HasExperimental(default_headers)
            /\ calls[t].nreq > 0 => HasExperimental(calls[t].headers)

\* C6 (second half, as a step property): the wrapper run for a call whose
\* first argument is anything else leaves the default headers as they were.
C6_OtherFirstArgumentUnchanged ==
    [][\A t \in threads :
          (/\ calls[t].pc = "wrapper" /\ calls'[t].pc = "body"
           /\ calls[t].first # "V1Client") =>
              default_headers' = default_headers]_vars

\* C6: invoking a wrapped operation through the recognized client class
\* sets the experimental header to 'true' on the shared default headers
\* before the wrapped operation issues its request; through any other kind
\* of first argument the default headers stay unchanged.
C6_ExperimentalHeaderByClientKind ==
    []C6_HeaderSetBeforeRequest /\ C6_OtherFirstArgumentUnchanged

\* A wrapped call through the recognized client has issued its request,
\* sent with the experimental header.
C6_Witness ==
    \E t \in threads :
        /\ WrappedCall(t) /\ calls[t].first = "V1Client"
        /\ calls[t].pc = "done" /\ calls[t].nreq = 1
        /\ HasExperimental(calls[t].headers)

\* C7: every request issued by an experimental_api-decorated operation
\* invoked on a share-group manager is sent with the experimental header
\* set to 'true'.
C7_ManagerRequestsCarryHeader ==
    \A t \in threads :
        (WrappedCall(t) /\ calls[t].first = "Manager" /\ calls[t].nreq > 0) =>
            HasExperimental(calls[t].headers)

\* C8: get, list and create of the share-group managers hand their caller
\* the Resource (or list of Resources) the wrapped operation returned.
C8_ResultReturnedThroughWrapper ==
    \A t \in threads :
        (/\ WrappedCall(t) /\ calls[t].first = "Manager"
         /\ calls[t].attr \in { "get", "list", "create" }
         /\ calls[t].pc = "done" /\ calls[t].err = "none") =>
            /\ calls[t].ret \in { "Resource", "ResourceList" }
            /\ calls[t].result = calls[t].ret

\* C9: once the experimental header is 'true' in the default headers it is
\* so in every later state, and every request issued from then on, by a
\* wrapped call or not, is sent with it.
C9_HeaderStaysSet ==
    [][HasExperimental(default_headers) =>
          /\ HasExperimental(default_headers')
          /\ \A t \in threads :
                calls'[t].nreq > calls[t].nreq =>
                    HasExperimental(calls'[t].headers)]_vars

\* After a wrapped call set the header, a ShareManager.get (not wrapped)
\* has sent its request with it.
C9_Witness ==
    \E t \in threads :
        /\ calls[t].first = "Manager" /\ calls[t].self = "ShareManager"
        /\ calls[t].attr = "get" /\ ~calls[t].func.exp
        /\ calls[t].pc = "done" /\ calls[t].nreq = 1
        /\ HasExperimental(calls[t].headers)

\* C10: with two calls on the one transport, a request that was sent with
\* the experimental header was sent after a wrapped call had set it: as
\* long as no call has set the header (the order in which the other call
\* runs first), no request carries it.
C10_NoHeaderUnlessSetByWrappedCall ==
    \A t \in threads :
        (calls[t].nreq > 0 /\ HasExperimental(calls[t].headers)) =>
            HasExperimental(default_headers)

\* The leak: a ShareManager.get running beside a wrapped call has sent its
\* request with the experimental header, which the wrapped call, still on
\* its way to its own request, had set.
C10_Witness ==
    \E t, u \in threads :
        /\ t # u
        /\ calls[t].first = "Manager" /\ calls[t].self = "ShareManager"
        /\ calls[t].attr = "get" /\ ~calls[t].func.exp
        /\ calls[t].pc = "done" /\ calls[t].nreq = 1
        /\ HasExperimental(calls[t].headers)
        /\ WrappedCall(u) /\ calls[u].first = "V1Client"
        /\ calls[u].pc = "body" /\ calls[u].nreq = 0

(* ------------------------ list(): sort and query ----------------------- *)

\* The sort key and the sort direction a list() call was given (None when
\* it was given none), and the allow-list of sort keys of its manager.
GivenSortKey(c) ==
    IF c.self = "ShareManager" THEN ArgOr(c.args, 3, "None")
    ELSE ArgOr(c.args, 4, "None")

GivenSortDir(c) ==
    IF c.self = "ShareManager" THEN ArgOr(c.args, 4, "None")
    ELSE ArgOr(c.args, 5, "None")

AllowedSortKeys(mgr) ==
    IF mgr = "ShareManager" THEN SHARE_SORT_KEY_VALUES
    ELSE GroupSortKeyValues(ManagerModule(mgr))

ListCall(t) == calls[t].first = "Manager" /\ calls[t].attr = "list"

InvalidSort(c) ==
    \/ GivenSortKey(c) # "None" /\ GivenSortKey(c) \notin AllowedSortKeys(c.self)
    \/ GivenSortDir(c) # "None" /\ GivenSortDir(c) \notin SORT_DIR_VALUES

\* C11: a list() call of any of the four managers whose sort key or sort
\* direction is given and is not in the allow-list issues no request, and,
\* at a session version at which the operation is found, ends with
\* ValueError.
C11_InvalidSortRaisesValueError ==
    \A t \in threads :
        (ListCall(t) /\ InvalidSort(calls[t])) =>
            /\ calls[t].nreq = 0
            /\ (calls[t].pc = "done"
                /\ calls[t].err # "VersionNotFoundForAPIMethod")
                    => calls[t].err = "ValueError"

\* The filters a ShareManager.list() call was given, as a set of items.
GivenFilters(c) ==
    LET name == ArgOr(c.args, 2, "None")
        d == IF name = "None" THEN << >> ELSE SearchOpts(name)
    IN  { d[i] : i \in 1..Len(d) }

\* A ShareManager.list() call that has issued its request.
ShareListSent(t) ==
    /\ ListCall(t)
    /\ calls[t].self = "ShareManager"
    /\ calls[t].nreq = 1

\* The items of a query string are in strictly ascending order of their keys.
AscendingByKey(query) ==
    \A i, j \in 1..Len(query) :
        i < j =>
            \E m, n \in 1..Len(KeyOrder) :
                m < n /\ KeyOrder[m] = query[i][1] /\ KeyOrder[n] = query[j][1]

QueryItems(c) == { c.req.query[i] : i \in 1..Len(c.req.query) }

\* C12 as stated: the query of ShareManager.list(), called without a sort
\* key and direction, consists of exactly the given filters whose value is
\* not falsy, in ascending order of their keys.
C12_QueryIsGivenNonFalsyFilters ==
    \A t \in threads :
        (ShareListSent(t) /\ GivenSortKey(calls[t]) = "None"
                          /\ GivenSortDir(calls[t]) = "None") =>
            /\ QueryItems(calls[t]) =
                    { f \in GivenFilters(calls[t]) : Truthy(f[2]) }
            /\ AscendingByKey(calls[t].req.query)

\* C12, amended: the query of ShareManager.list() consists of exactly the
\* given filters whose value is not falsy, is_public=True when no is_public
\* filter is given, and the sort key (aliases replaced) and the sort
\* direction when they are given, in ascending order of their keys.
C12_QueryIsNonFalsyFiltersAndDefaults ==
    \A t \in threads :
        ShareListSent(t) =>
            LET c == calls[t]
                k == GivenSortKey(c)
                r == GivenSortDir(c)
                alias == CASE k = "share_type"    -> "share_type_id"
                           [] k = "snapshot"      -> "snapshot_id"
                           [] k = "share_network" -> "share_network_id"
                           [] OTHER               -> k
            IN  /\ QueryItems(c) =
                        { f \in GivenFilters(c) : Truthy(f[2]) }
                        \cup (IF \E f \in GivenFilters(c) : f[1] = "is_public"
                              THEN { } ELSE { <<"is_public", "True">> })
                        \cup (IF k = "None" THEN { } ELSE { <<"sort_key", alias>> })
                        \cup (IF r = "None" THEN { } ELSE { <<"sort_dir", r>> })
                /\ AscendingByKey(c.req.query)
                /\ Len(c.req.query) = Cardinality(QueryItems(c))

\* ShareManager.list() was given {status: available, b: '', a: x} and a
\* sort key alias: its query is a=x&is_public=True&sort_key=share_type_id&
\* status=available.
C12_Witness ==
    \E t \in threads :
        /\ ShareListSent(t)
        /\ calls[t].args = <<"True", "opts_abs", "share_type", "None">>
        /\ calls[t].req.query =
                << <<"a", "x">>, <<"is_public", "True">>,
                   <<"sort_key", "share_type_id">>, <<"status", "available">> >>

(* --------------------------- custom actions ---------------------------- *)

\* The custom action operations of the managers, and those among them that
\* take no parameter besides their target.
ActionOps ==
    { "force_delete", "reset_state", "reset_replica_state", "promote",
      "resync", "extend", "shrink", "allow", "deny", "access_list",
      "migrate_share", "unmanage" }

NoParameterOps == { "force_delete", "promote", "resync", "access_list", "unmanage" }

\* Thread t has finished a call of a custom action operation that was found
\* at the session version (unmanage is an action from 2.7 on).
ActionCallDone(t) ==
    /\ calls[t].pc = "done"
    /\ calls[t].first = "Manager"
    /\ calls[t].attr \in ActionOps
    /\ calls[t].err # "VersionNotFoundForAPIMethod"
    /\ calls[t].attr = "unmanage" =>
            VerNum(api_version) >= VerNum(APIVersion(2, 7))

\* C13: with no hook registered, every custom action operation of every
\* manager issues exactly one POST, to <resource path of the manager>/<id of
\* the target>/action, whose body is the single entry {action name: info},
\* info being null for the operations without parameters.
C13_ActionIsOnePostOfNameAndInfo ==
    \A t \in threads :
        (ActionCallDone(t) /\ hooks = << >>) =>
            /\ calls[t].nreq = 1
            /\ calls[t].req.meth = "POST"
            /\ calls[t].req.url =
                    << ResourcesPath(ManagerModule(calls[t].self)),
                       calls[t].args[1], "/action" >>
            /\ Len(calls[t].req.body) = 2
            /\ calls[t].attr \in NoParameterOps => calls[t].req.body[2] = Null

\* Thread t's call has handed a POST on an action path to the transport.
ActionPosted(t) ==
    /\ calls[t].nreq >= 1
    /\ calls[t].req.meth = "POST"
    /\ calls[t].req.url[Len(calls[t].req.url)] = "/action"

\* C14: the body of every action POST, of every manager, has been through
\* all the hooks registered for 'modify_body_for_action', in registration
\* order: it is the {action: info} entry followed by the marks of the
\* hooks in that order.
C14_HooksRunBeforeActionPost ==
    \A t \in threads :
        ActionPosted(t) =>
            /\ Len(calls[t].req.body) = 2 + Len(hooks)
            /\ \A i \in 1..Len(hooks) : calls[t].req.body[2 + i] = hooks[i]

(* ----------------------- requests and failures ------------------------- *)

\* C15 as stated: every finished call has issued exactly one request when
\* it succeeded, and has applied nothing on the service when it failed.
C15_OneRequestPerCall ==
    \A t \in threads :
        calls[t].pc = "done" =>
            /\ calls[t].err = "none" => calls[t].nreq = 1
            /\ calls[t].err # "none" => calls[t].applied = 0

DeleteMetadataCall(c) ==
    c.first = "Manager" /\ c.self = "ShareManager" /\ c.attr = "delete_metadata"

UpdateWithoutFields(c) ==
    c.first = "Manager" /\ c.self = "ShareManager" /\ c.attr = "update"
        /\ Len(c.args) = 1

\* C15, amended: a call issues at most one request, and exactly one when
\* it succeeds, and when it fails it has applied nothing; except that
\* ShareManager.update without fields succeeds without a request, and that
\* ShareManager.delete_metadata issues one DELETE per key, in the order of
\* the keys, up to the first that fails, the keys before it staying deleted.
C15_RequestsPerCall ==
    \A t \in threads :
        LET c == calls[t]
            nkeys == Len(c.args) - 1
        IN  IF DeleteMetadataCall(c)
            THEN /\ c.nreq <= nkeys
                 /\ c.applied = IF c.err = "TransportError" THEN c.nreq - 1
                                ELSE c.nreq
                 /\ c.nreq >= 1 =>
                        c.req = Request("DELETE",
                                        <<"/shares", c.args[1], "/metadata",
                                          c.args[1 + c.nreq]>>,
                                        NoQuery, NoBody)
                 /\ (c.pc = "done" /\ c.err = "none") => c.nreq = nkeys
            ELSE /\ c.nreq <= 1
                 /\ (c.pc = "done" /\ c.err = "none") =>
                        c.nreq = IF UpdateWithoutFields(c) THEN 0 ELSE 1
                 /\ (c.pc = "done" /\ c.err # "none") => c.applied = 0

\* delete_metadata with two keys has failed on its second DELETE: the first
\* key is deleted.
C15_Witness ==
    \E t \in threads :
        /\ DeleteMetadataCall(calls[t])
        /\ Len(calls[t].args) = 3
        /\ calls[t].pc = "done" /\ calls[t].err = "TransportError"
        /\ calls[t].nreq = 2 /\ calls[t].applied = 1

\* A call whose request failed is over, with the failure as its outcome and
\* no value returned.
C16_FailureReachesCaller ==
    \A t \in threads :
        calls[t].err = "TransportError" =>
            /\ calls[t].pc = "done"
            /\ calls[t].nreq >= 1
            /\ calls[t].result = "None"

\* After the failure the call issues no request: all it does is return.
C16_NoRequestAfterFailure ==
    [][\A t \in threads :
          calls[t].err = "TransportError" =>
              \/ calls'[t] = calls[t]
              \/ calls'[t] = Idle]_vars

\* C16: when the transport reports a failure for a request, the call issues
\* no further request (no retry, none of the requests that remained) and
\* the failure reaches the caller, through the dispatcher and the
\* experimental wrapper too.
C16_FailureEndsTheCall == []C16_FailureReachesCaller /\ C16_NoRequestAfterFailure

\* delete_metadata with two keys has failed on its first DELETE and is over
\* with one request issued.
C16_Witness ==
    \E t \in threads :
        /\ DeleteMetadataCall(calls[t])
        /\ Len(calls[t].args) = 3
        /\ calls[t].pc = "done" /\ calls[t].err = "TransportError"
        /\ calls[t].nreq = 1

\* The session version lies in a window that the manager of call c declares
\* for the operation called.
InOwnWindow(c) ==
    \E d \in AllDecls :
        /\ d.mod = ManagerModule(c.self)
        /\ d.attr = c.attr
        /\ Contains(api_version, d)

\* Thread t has finished a reset_state or reset_replica_state call, made at
\* a session version for which its manager declares the operation.
ResetCallDone(t) ==
    /\ calls[t].pc = "done"
    /\ calls[t].first = "Manager"
    /\ calls[t].attr \in { "reset_state", "reset_replica_state" }
    /\ InOwnWindow(calls[t])

\* C17: reset_state, on any manager, for any target and state, issues
\* exactly one action POST that carries {status: state}, and
\* reset_replica_state one that carries {replica_state: value}; the value
\* is never rejected locally.
C17_ResetStateForwarded ==
    \A t \in threads :
        ResetCallDone(t) =>
            /\ calls[t].nreq = 1
            /\ calls[t].req.meth = "POST"
            /\ calls[t].req.url =
                    << ResourcesPath(ManagerModule(calls[t].self)),
                       calls[t].args[1], "/action" >>
            /\ calls[t].req.body[2] =
                    Obj(<< << IF calls[t].attr = "reset_state" THEN "status"
                              ELSE "replica_state",
                              calls[t].args[2] >> >>)

\* Thread t has finished a ShareGroupReplicaManager.delete call, made at a
\* session version for which the operation is declared.
ReplicaDeleteDone(t) ==
    /\ calls[t].pc = "done"
    /\ calls[t].first = "Manager"
    /\ calls[t].self = "ShareGroupReplicaManager"
    /\ calls[t].attr = "delete"
    /\ InOwnWindow(calls[t])

\* C18: ShareGroupReplicaManager.delete issues exactly one request: without
\* force a DELETE on /share-group-replicas/<id>, with force a POST of
\* {force_delete: null} to /share-group-replicas/<id>/action.
C18_ReplicaDeleteOneRequest ==
    \A t \in threads :
        ReplicaDeleteDone(t) =>
            /\ calls[t].nreq = 1
            /\ calls[t].req =
                    IF Len(calls[t].args) >= 2 /\ calls[t].args[2] = "True"
                    THEN Request("POST",
                                 <<"/share-group-replicas", calls[t].args[1], "/action">>,
                                 NoQuery, <<"force_delete", Null>>)
                    ELSE Request("DELETE",
                                 <<"/share-group-replicas", calls[t].args[1]>>,
                                 NoQuery, NoBody)

(* ------------------------- the helper functions ------------------------ *)

\* The helper call of the run is one of fn and has returned or raised.
UtilDone(fn) == util.fn = fn /\ util.done

\* Item has a '=', and its key and value are what stands before and after
\* the first one.
HasEquals(item) == \E i \in 1..Len(item) : item[i] = "="

FirstEquals(item) ==
    CHOOSE i \in 1..Len(item) :
        item[i] = "=" /\ \A j \in 1..(i - 1) : item[j] # "="

KeyOf(item) == SubSeq(item, 1, FirstEquals(item) - 1)

ValueOf(item) == SubSeq(item, FirstEquals(item) + 1, Len(item))

\* C19: extract_properties returns, for a list of 'key=value' items, the
\* mapping of every key to the text after the first '=' of its item; when
\* an item has no '=' or a key occurs in two items it fails with
\* CommandError and returns no mapping.
C19_ExtractProperties ==
    UtilDone("extract_properties") =>
        LET items == util.arg
            fine == /\ \A i \in 1..Len(items) : HasEquals(items[i])
                    /\ \A i, j \in 1..Len(items) :
                          i # j => KeyOf(items[i]) # KeyOf(items[j])
        IN  IF fine
            THEN /\ util.out.err = "none"
                 /\ Len(util.out.value) = Len(items)
                 /\ \A i \in 1..Len(items) :
                        \E k \in 1..Len(util.out.value) :
                            util.out.value[k] = <<KeyOf(items[i]), ValueOf(items[i])>>
            ELSE /\ util.out.err = "CommandError"
                 /\ util.out.value = << >>

\* extract_properties(['a==', '=a']) has returned {a: '=', '': a}.
C19_Witness ==
    /\ UtilDone("extract_properties")
    /\ util.arg = << <<"a", "=", "=">>, <<"=", "a">> >>
    /\ util.out.err = "none"
    /\ util.out.value = << << <<"a">>, <<"=">> >>, << << >>, <<"a">> >> >>

\* The number a run of decimal digits stands for.
RECURSIVE NumberOf(_)
NumberOf(ds) ==
    IF Len(ds) = 0 THEN 0
    ELSE 10 * NumberOf(SubSeq(ds, 1, Len(ds) - 1))
         + (CHOOSE v \in 0..9 :
                <<"0", "1", "2", "3", "4", "5", "6", "7", "8", "9">>[v + 1]
                    = ds[Len(ds)])

\* The text is an integer as Python reads one, between lo and hi: blanks,
\* then an optional sign, then decimal digits, single underscores allowed
\* between digits, then blanks; and the number lies in lo..hi.
IntegerIn(text, lo, hi) ==
    \E i, j \in 0..Len(text) :
        /\ i < j
        /\ \A k \in 1..i : text[k] = " "
        /\ \A k \in (j + 1)..Len(text) : text[k] = " "
        /\ LET signed == text[i + 1] \in { "+", "-" }
               body == SubSeq(text, IF signed THEN i + 2 ELSE i + 1, j)
               ds == SelectSeq(body, LAMBDA ch : ch # "_")
           IN  /\ Len(body) > 0
               /\ \A k \in 1..Len(body) :
                      \/ body[k] \in Digits
                      \/ /\ body[k] = "_"
                         /\ 1 < k /\ k < Len(body)
                         /\ body[k - 1] \in Digits /\ body[k + 1] \in Digits
               /\ LET n == IF text[i + 1] = "-" THEN 0 - NumberOf(ds)
                           ELSE NumberOf(ds)
                  IN  lo <= n /\ n <= hi

\* The places of character ch in the text.
Places(text, ch) == { i \in 1..Len(text) : text[i] = ch }

\* The text is four dot-separated integers in 0..255, optionally followed
\* by one '/' and an integer prefix in 0..32.
WellFormedIpRange(text) ==
    LET slashes == Places(text, "/")
        addr == IF slashes = { } THEN text
                ELSE SubSeq(text, 1, (CHOOSE i \in slashes : TRUE) - 1)
        dots == Places(addr, ".")
        Comp(n) ==
            LET before == { d \in dots : Cardinality({ e \in dots : e < d }) = n - 2 }
                after == { d \in dots : Cardinality({ e \in dots : e < d }) = n - 1 }
                from == IF before = { } THEN 1 ELSE (CHOOSE d \in before : TRUE) + 1
                to == IF after = { } THEN Len(addr) ELSE (CHOOSE d \in after : TRUE) - 1
            IN  SubSeq(addr, from, to)
    IN  /\ Cardinality(slashes) <= 1
        /\ Cardinality(dots) = 3
        /\ \A n \in 1..4 : IntegerIn(Comp(n), 0, 255)
        /\ slashes # { } =>
              IntegerIn(SubSeq(text, (CHOOSE i \in slashes : TRUE) + 1, Len(text)),
                        0, 32)

GroupManagers == Managers \ { "ShareManager" }

\* Thread t's call is a get, list, force_delete or reset_state made on a
\* share-group manager at a session version of 2.56 or later, and the
\* dispatcher has chosen an implementation for it.
GroupCallDispatched(t) ==
    /\ GatedCall(t)
    /\ calls[t].self \in GroupManagers
    /\ calls[t].attr \in { "get", "list", "force_delete", "reset_state" }
    /\ VerNum(api_version) >= VerNum(APIVersion(2, 56))
    /\ calls[t].func # NoFunc

\* C21: at every version from 2.56 on, a get, list, force_delete or
\* reset_state call made on a share-group instance, replica or
\* snapshot-instance manager runs an implementation declared by that same
\* manager, and every request it issues goes to that manager's own
\* resources path.
C21_OwnImplementationRuns ==
    \A t \in threads :
        GroupCallDispatched(t) =>
            /\ calls[t].func.mod = ManagerModule(calls[t].self)
            /\ (calls[t].nreq > 0 =>
                    calls[t].req.url[1] = ResourcesPath(ManagerModule(calls[t].self)))

(* ------------------- the list() bodies called directly ------------------ *)

\* The function a manager class declares as list.
ListFunc(mgr) ==
    IF mgr = "ShareManager" THEN PlainFunc("shares", "list", 290)
    ELSE CHOOSE d \in AllDecls : d.mod = ManagerModule(mgr) /\ d.attr = "list"

\* The search_opts argument of a list() call of manager mgr ("None" when it
\* is not passed).
SearchOptsArg(mgr, args) ==
    ArgOr(args, IF mgr = "ShareManager" THEN 2 ELSE 3, "None")

\* The mapping the caller passes as search_opts, as it is before the call.
PassedMapping(mgr, args) ==
    IF SearchOptsArg(mgr, args) = "None" THEN << >>
    ELSE SearchOpts(SearchOptsArg(mgr, args))

\* The caller's mapping after ShareManager.list has returned or raised:
\* the function writes into the dict it is given (it makes a dict of its
\* own only for None), sort_key before sort_dir is validated, and
\* is_public after both.
ShareListMapping(args) ==
    LET so0 == PassedMapping("ShareManager", args)
        sort_key == ArgOr(args, 3, "None")
        sort_dir == ArgOr(args, 4, "None")
        so1 == IF sort_key # "None"
               THEN DictSet(so0, "sort_key", SortKeyAlias(sort_key)) ELSE so0
    IN  IF sort_key # "None" /\ sort_key \notin SHARE_SORT_KEY_VALUES THEN so0
        ELSE IF sort_dir # "None" /\ sort_dir \notin SORT_DIR_VALUES THEN so1
        ELSE ShareListOpts(SearchOptsArg("ShareManager", args), sort_key, sort_dir)

\* The caller's mapping after the list() of share-group module mod has
\* returned or raised: `search_opts or {}` keeps the caller's dict when it
\* is not empty, and the function then writes the filter key, sort_key and
\* sort_dir into it, each before the next check.
GroupListMapping(mod, args) ==
    LET first == ArgOr(args, 1, "None")
        given == ArgOr(args, 3, "None")
        sort_key == ArgOr(args, 4, "None")
        sort_dir == ArgOr(args, 5, "None")
        so0 == IF given = "None" THEN << >> ELSE SearchOpts(given)
        so1 == IF Truthy(first) THEN DictSet(so0, ListFilterKey(mod), first) ELSE so0
        so2 == IF sort_key # "None" THEN DictSet(so1, "sort_key", sort_key) ELSE so1
    IN  IF Len(so0) = 0 THEN so0
        ELSE IF sort_key # "None" /\ sort_key \notin GroupSortKeyValues(mod) THEN so1
        ELSE IF sort_dir # "None" /\ sort_dir \notin SORT_DIR_VALUES THEN so2
        ELSE GroupListOpts(mod, first, given, sort_key, sort_dir)

\* The list() functions applied to a manager of their own class and the
\* argument lists of the full workload.
ListCalls ==
    UNION { { [fn |-> "list", self |-> mgr, args |-> args, done |-> FALSE,
               search_opts |-> PassedMapping(mgr, args),
               out |-> Raises("none")] : args \in MoreCallArgs(mgr, "list") } :
            mgr \in Managers }

\* A run in which one declared list() function is called on one argument
\* list, as the dispatcher calls it once it has selected it.
InitList ==
    /\ api_version = APIVersion(2, 56)
    /\ registry = EmptyRegistry
    /\ default_headers = NoHeaders
    /\ hooks = << >>
    /\ workload = "none"
    /\ threads = { }
    /\ calls = [t \in ThreadIds |-> Idle]
    /\ util \in ListCalls

\* ShareManager.list runs up to its request or its error; search_opts is
\* the caller's mapping as the call leaves it.
ApplyShareList ==
    /\ util.fn = "list"
    /\ util.self = "ShareManager"
    /\ ~util.done
    /\ util' = [util EXCEPT !.done = TRUE,
                            !.search_opts = ShareListMapping(util.args),
                            !.out = Body(ListFunc(util.self), util.self, util.args)]
    /\ UNCHANGED <<api_version, registry, default_headers, hooks, workload, threads, calls>>

\* The list of a share-group manager runs up to its request or its error.
ApplyGroupList ==
    /\ util.fn = "list"
    /\ util.self \in Managers \ { "ShareManager" }
    /\ ~util.done
    /\ util' = [util EXCEPT !.done = TRUE,
                            !.search_opts =
                                GroupListMapping(ManagerModule(util.self), util.args),
                            !.out = Body(ListFunc(util.self), util.self, util.args)]
    /\ UNCHANGED <<api_version, registry, default_headers, hooks, workload, threads, calls>>

NextList ==
    \/ ApplyShareList
    \/ ApplyGroupList

SpecList == InitList /\ [][NextList]_vars

\* ---- C22: the replicas' list filters by share_group_id ----

\* The list() of manager mgr has been called with a share group (its first
\* parameter) and has issued its request.
GroupListSent(mgr) ==
    /\ util.fn = "list"
    /\ util.self = mgr
    /\ util.done
    /\ Truthy(ArgOr(util.args, 1, "None"))
    /\ util.out.err = "none"

\* query carries the pair key=value.
HasFilter(query, key, value) ==
    \E i \in 1..Len(query) : query[i] = <<key, value>>

\* C22: the query string ShareGroupReplicaManager.list sends for
\* share_group=g contains share_group_id=<id of g>, the filter key that
\* ShareGroupInstanceManager.list sends for its share_group argument.
C22_ReplicaListFiltersByShareGroupId ==
    GroupListSent("ShareGroupReplicaManager") =>
        HasFilter(util.out.req.query, "share_group_id", util.args[1])

\* ---- C23: list leaves the caller's search_opts alone ----

\* The items of a mapping.
ItemSet(d) == { d[i] : i \in 1..Len(d) }

\* A list() call that was given a search_opts mapping has returned or has
\* failed with the invalid-input error.
ListWithMappingDone ==
    /\ util.fn = "list"
    /\ util.done
    /\ SearchOptsArg(util.self, util.args) # "None"
    /\ util.out.err \in { "none", "ValueError" }

\* C23: after a list() call has returned or has failed with the
\* invalid-input error, the search_opts mapping the caller passed holds
\* exactly the keys and values it held before the call.
C23_SearchOptsUnchanged ==
    ListWithMappingDone =>
        ItemSet(util.search_opts) = ItemSet(PassedMapping(util.self, util.args))

\* ---- C24: one availability window for the replica manager ----

\* Thread t has called a version-gated operation of ShareGroupReplicaManager.
ReplicaCall(t) ==
    /\ GatedCall(t)
    /\ calls[t].self = "ShareGroupReplicaManager"
    /\ calls[t].attr \in { "create", "get", "list", "delete", "reset_state",
                           "promote", "resync", "reset_replica_state" }

\* C24: at every session version below 2.56 each of create, get, list,
\* delete, reset_state, promote, resync and reset_replica_state of
\* ShareGroupReplicaManager fails with VersionNotFoundForAPIMethod, and at
\* every version from 2.56 on the dispatcher selects an implementation.
C24_ReplicaOpsShareOneWindow ==
    \A t \in threads :
        ReplicaCall(t) =>
            IF VerNum(api_version) < VerNum(APIVersion(2, 56))
            THEN /\ calls[t].err = "VersionNotFoundForAPIMethod"
                 /\ calls[t].func = NoFunc
            ELSE calls[t].func # NoFunc

====
